---- MODULE Spec2Model ----
(***************************************************************************)
(* A model of pg_strom's scan.c: the chunk-oriented scan of a column       *)
(* store (RelationSet, chunk loader, column-store cache, scan iterator,    *)
(* teardown).                                                              *)
(*                                                                         *)
(* Row identifiers, array items and bitmaps keep the layout the C code     *)
(* works on: bitmaps are sequences of bytes read with the code's own       *)
(* shift/mask expressions, arrays carry a packed data area and an optional *)
(* null bitmap.  The model takes the 64-bit build (USE_FLOAT8_BYVAL), in   *)
(* which Int64GetDatum(values[0]) at lines 288, 449 and 505 is the         *)
(* identity on the stored row identifier.                                  *)
(***************************************************************************)
EXTENDS Integers, Sequences, FiniteSets, TLC

(***************************************************************************)
(* Bounds of the model and program constants                               *)
(***************************************************************************)
\* bits in a byte (c.h), used at lines 293, 306, 313-315, 550-551
BITS_PER_BYTE == 8
\* bytes of one chunk's row map; PGSTROM_CHUNK_SIZE is scaled down to this
ChunkBytes == 1
\* tuples the rowid store holds at most
MaxChunks == 2
\* chunk->nattrs (line 359): the attribute count of the rowid store, whose
\* tuples are (rowid, rowmap) (lines 343, 360-361).  The base relations
\* scanned here have as many columns, so that a chunk has a buffer pointer
\* for each of them.
NAttrs == 2
\* calls of pgstrom_iterate_foreign_scan one behaviour makes at most
MaxCalls == 3
\* calls of pgboost_end_foreign_scan one behaviour makes at most
MaxEnds == 2
\* value of the pgstrom_max_async_chunks setting (line 31)
pgstrom_max_async_chunks == 1
\* number of devices, pgstrom_num_devices (lines 619, 695, 724, 924)
pgstrom_num_devices == 3

PGSTROM_CHUNK_SIZE == ChunkBytes * BITS_PER_BYTE

Cols == 1..NAttrs

(***************************************************************************)
(* Bytes and bitmaps                                                       *)
(***************************************************************************)
RECURSIVE Pow2(_)
Pow2(n) == IF n = 0 THEN 1 ELSE 2 * Pow2(n - 1)

\* (byte & (1 << l)) != 0, as at lines 555 and 579
BitIsSet(byte, l) == (byte \div Pow2(l)) % 2 = 1

\* index / BITS_PER_BYTE (line 550), as a 1-based position in a byte sequence
IndexH(index) == (index \div BITS_PER_BYTE) + 1

\* index & (BITS_PER_BYTE - 1) (line 551)
IndexL(index) == index % BITS_PER_BYTE

\* the byte whose set bits are exactly the offsets in S (S within 0..7)
RECURSIVE ByteOf(_)
ByteOf(S) ==
    IF S = {} THEN 0
    ELSE LET b == CHOOSE x \in S : TRUE
         IN  Pow2(b) + ByteOf(S \ {b})

SetMin(S) == CHOOSE x \in S : \A y \in S : x <= y
SetMax(S) == CHOOSE x \in S : \A y \in S : x >= y

(***************************************************************************)
(* Stored arrays (ArrayType) of a column store                             *)
(*                                                                         *)
(* An array is [rowid, dims, hasnull, nullbitmap, data]: the tuple's key,  *)
(* ARR_DIMS[0], whether ARR_NULLBITMAP is non-NULL, that bitmap (a set bit *)
(* means the item is NOT null) and ARR_DATA_PTR, which holds the non-null  *)
(* items only, packed.                                                     *)
(***************************************************************************)
\* the value stored for row identifier r (never 0, the zeroed-memory value)
StoredValue(r) == 1 + (r % 3)

\* a NULL ArrayType pointer (lines 416, 429, 477, 480)
NullArray == [rowid |-> -1, dims |-> 0, hasnull |-> FALSE,
              nullbitmap |-> << >>, data |-> << >>]

RECURSIVE PackData(_, _, _, _)
PackData(s, n, nullset, i) ==
    IF i >= n THEN << >>
    ELSE IF i \in nullset THEN PackData(s, n, nullset, i + 1)
    ELSE <<StoredValue(s + i)>> \o PackData(s, n, nullset, i + 1)

\* the stored tuple (rowid = s, array of n items, those at nullset null)
MkArray(s, n, nullset) ==
    [rowid |-> s, dims |-> n, hasnull |-> nullset /= {},
     nullbitmap |->
        IF nullset = {} THEN << >>
        ELSE [j \in 1..((n + BITS_PER_BYTE - 1) \div BITS_PER_BYTE) |->
                ByteOf({l \in 0..(BITS_PER_BYTE - 1) :
                           /\ (j - 1) * BITS_PER_BYTE + l < n
                           /\ (j - 1) * BITS_PER_BYTE + l \notin nullset})],
     data |-> PackData(s, n, nullset, 0)]

\* number of non-null items before position idx (array_seek over the bitmap)
ItemsBefore(arr, idx) ==
    Cardinality({k \in 0..(idx - 1) :
                    BitIsSet(arr.nullbitmap[IndexH(k)], IndexL(k))})

\* array_ref(array, 1, &index, ...) as called at lines 530-537: a subscript
\* outside [0, dims) or a null item gives (Datum 0, isnull = true)
array_ref(arr, idx) ==
    IF idx < 0 \/ idx >= arr.dims
    THEN [value |-> 0, isnull |-> TRUE]
    ELSE IF arr.hasnull /\ ~BitIsSet(arr.nullbitmap[IndexH(idx)], IndexL(idx))
    THEN [value |-> 0, isnull |-> TRUE]
    ELSE IF arr.hasnull
    THEN [value |-> arr.data[ItemsBefore(arr, idx) + 1], isnull |-> FALSE]
    ELSE [value |-> arr.data[idx + 1], isnull |-> FALSE]

(***************************************************************************)
(* Index scans on a column store (IndexScanDesc)                           *)
(*                                                                         *)
(* A scan is [open, op, key, pos]: op/key the scan key of the last         *)
(* index_rescan, pos the key of the tuple the scan stands on (-1: not yet  *)
(* positioned).  A column store is a set of arrays with distinct rowid.    *)
(***************************************************************************)
\* a NULL IndexScanDesc (palloc0 at line 620)
NullScan == [open |-> FALSE, op |-> "none", key |-> 0, pos |-> -1]

\* index_beginscan (lines 791-794)
index_beginscan == [open |-> TRUE, op |-> "none", key |-> 0, pos |-> -1]

\* index_rescan(scan, &skey, 1, NULL, 0) (lines 489, 525)
index_rescan(scan, op, key) == [scan EXCEPT !.op = op, !.key = key, !.pos = -1]

\* whether row identifier k satisfies the scan key (lines 485-488, 521-524)
KeyMatches(scan, k) ==
    CASE scan.op = "LE" -> k <= scan.key
      [] scan.op = "GT" -> k > scan.key
      [] OTHER -> TRUE

\* the tuples a fetch in the given direction can still reach
Reachable(store, scan, direction) ==
    {a \in store :
        /\ KeyMatches(scan, a.rowid)
        /\ \/ scan.pos = -1
           \/ direction = "Forward" /\ a.rowid > scan.pos
           \/ direction = "Backward" /\ a.rowid < scan.pos}

\* the tuple with key k, fetched: the scan stands on it afterwards
Fetched(cand, scan, k) ==
    [valid |-> TRUE, tuple |-> CHOOSE a \in cand : a.rowid = k,
     scan |-> [scan EXCEPT !.pos = k]]

\* the first of the reachable tuples cand in the given direction, if any
FetchFrom(cand, scan, direction) ==
    IF cand = {}
    THEN [valid |-> FALSE, tuple |-> NullArray, scan |-> scan]
    ELSE IF direction = "Forward"
    THEN Fetched(cand, scan, SetMin({a.rowid : a \in cand}))
    ELSE Fetched(cand, scan, SetMax({a.rowid : a \in cand}))

\* index_getnext(scan, direction) (lines 439, 491): the next tuple in key
\* order that satisfies the scan key, or no tuple
index_getnext(store, scan, direction) ==
    FetchFrom(Reachable(store, scan, direction), scan, direction)

(***************************************************************************)
(* pgstrom_scan_column_store: the lazy single-row lookup (lines 400-538)   *)
(*                                                                         *)
(* The per-column cache is (cs_cur_values, cs_cur_rowid_min,               *)
(* cs_cur_rowid_max) and the column's index scan cs_scan.  The operators   *)
(* work on one column's [scan, values, min, max] record.                   *)
(***************************************************************************)
\* the miss condition had the cached interval been half-open, [min, max)
CacheMissExclusiveEnd(c, rowid) ==
    \/ c.values = NullArray
    \/ rowid < c.min
    \/ rowid >= c.max

\* the condition of lines 416-418: the cached array does not serve rowid
CacheMiss(c, rowid) ==
    \/ c.values = NullArray
    \/ rowid < c.min
    \/ rowid > c.max

\* the condition of lines 429-433: rowid is near enough ahead of the cache
ProbeApplies(c, rowid) ==
    /\ c.values /= NullArray
    /\ rowid > c.max
    /\ rowid < c.max + 2 * (c.max - c.min)

\* "Hit!", lines 454-455
ProbeHit(rowid, tuple) ==
    /\ rowid >= tuple.rowid
    /\ rowid <= tuple.rowid + tuple.dims

\* lines 459-462 and 509-512: the fetched tuple becomes the cached array
Cached(scan, tuple) ==
    [scan |-> scan, values |-> tuple, min |-> tuple.rowid,
     max |-> tuple.rowid + tuple.dims]

\* lines 527-537: the value at rowid out of the cached array
CachedValue(c, rowid) == array_ref(c.values, rowid - c.min)

\* the result of one lookup: the column's cache and scan afterwards, the
\* slot's (value, isnull) as the record r, and what the lookup did: path is
\* "cache", "probe", "seek", "none" (the seek found no tuple) or "crash"
\* (the lookup hands a NULL scan to the index, lines 439 and 489), fetches
\* and rescans count the index_getnext and index_rescan calls, asserted is
\* FALSE when the assertion of lines 514-515 does not hold
LookupResult(c, r, path, fetches, rescans, asserted) ==
    [cache |-> c, value |-> r.value, isnull |-> r.isnull, path |-> path,
     fetches |-> fetches, rescans |-> rescans, asserted |-> asserted,
     crashed |-> path = "crash"]

\* one pass of the loop of lines 437-470, given the tuple f it fetched
RECURSIVE HeuristicProbe(_, _, _, _, _)
ProbeStep(store, f, rowid, count, n) ==
    IF ~f.valid
    THEN [hit |-> FALSE, tuple |-> NullArray, scan |-> f.scan,
          fetches |-> n + 1]
    ELSE IF ProbeHit(rowid, f.tuple)
    THEN [hit |-> TRUE, tuple |-> f.tuple, scan |-> f.scan, fetches |-> n + 1]
    ELSE HeuristicProbe(store, f.scan, rowid, count - 1, n + 1)

\* the loop of lines 435-470: up to count forward fetches; n counts them
HeuristicProbe(store, scan, rowid, count, n) ==
    IF count = 0
    THEN [hit |-> FALSE, tuple |-> NullArray, scan |-> scan, fetches |-> n]
    ELSE ProbeStep(store, index_getnext(store, scan, "Forward"), rowid,
                   count, n)

\* lines 477-483: the cached array is dropped before the seek
DropCache(c) ==
    IF c.values /= NullArray
    THEN [c EXCEPT !.values = NullArray, !.min = -1, !.max = -1]
    ELSE c

\* lines 509-537 with the array cached by the seek
SeekCached(cached, rowid, probed) ==
    LookupResult(cached, CachedValue(cached, rowid), "seek", probed + 1, 2,
                 rowid >= cached.min /\ rowid <= cached.max)

\* lines 493-525, given the tuple f the backward fetch returned: no tuple
\* gives a null; else the tuple is cached and the scan reset to the keys
\* after the cached range
SeekFetched(dropped, f, rowid, probed) ==
    IF ~f.valid
    THEN LookupResult([dropped EXCEPT !.scan = f.scan],
                      [value |-> 0, isnull |-> TRUE], "none", probed + 1, 1,
                      TRUE)
    ELSE SeekCached(Cached(index_rescan(f.scan, "GT",
                                        f.tuple.rowid + f.tuple.dims),
                           f.tuple),
                    rowid, probed)

\* lines 473-525: drop the cache and seek the tuple at or before rowid
FullSeek(store, c, rowid, probed) ==
    SeekFetched(DropCache(c),
                index_getnext(store, index_rescan(c.scan, "LE", rowid),
                              "Backward"),
                rowid, probed)

\* lines 453-465 and 473: after the probe p, its hit is cached, its miss
\* falls through to the seek
AfterProbe(store, c, rowid, p) ==
    IF p.hit
    THEN LookupResult(Cached(p.scan, p.tuple),
                      CachedValue(Cached(p.scan, p.tuple), rowid),
                      "probe", p.fetches, 0, TRUE)
    ELSE FullSeek(store, [c EXCEPT !.scan = p.scan], rowid, p.fetches)

pgstrom_scan_column_store(store, c, rowid) ==
    IF ~CacheMiss(c, rowid)
    THEN LookupResult(c, CachedValue(c, rowid), "cache", 0, 0, TRUE)
    ELSE IF ~c.scan.open
    THEN LookupResult(c, [value |-> 0, isnull |-> TRUE], "crash", 0, 0, TRUE)
    ELSE IF ProbeApplies(c, rowid)
    THEN AfterProbe(store, c, rowid,
                    HeuristicProbe(store, c.scan, rowid, 2, 0))
    ELSE FullSeek(store, c, rowid, 0)

\* the cache of a column before its first lookup (palloc0, lines 620-623)
EmptyCache(scan) == [scan |-> scan, values |-> NullArray, min |-> 0, max |-> 0]

(***************************************************************************)
(* Chunk buffers (PgStromChunkBuf, lines 166-179)                          *)
(*                                                                         *)
(* A chunk is [rowid, rowmap, cs_values, cs_nulls, stages]: cs_values[c]   *)
(* and cs_nulls[c] are << >> while the pointer is NULL; stages lists the   *)
(* pipeline lists the chunk was put on, in order.                          *)
(***************************************************************************)
\* VARBITLEN(chunk->rowmap) (line 547)
VARBITLEN(rowmap) == Len(rowmap) * BITS_PER_BYTE

\* memcpy of nitems values from the array's data area to values + offset
\* (lines 309-311); items the data area does not hold are read past its end
\* and come out as g, items past the buffer's end are not kept
CopyValues(values, offset, arr, g) ==
    [i \in 1..Len(values) |->
        IF i - 1 >= offset /\ i - 1 < offset + arr.dims
        THEN IF i - offset <= Len(arr.data) THEN arr.data[i - offset] ELSE g
        ELSE values[i]]

\* memcpy of (nitems + 7) / 8 bytes of the array's null bitmap to
\* cs_nulls + offset / 8 (lines 312-315)
CopyNulls(nulls, offset, arr) ==
    [j \in 1..Len(nulls) |->
        IF /\ j - 1 >= offset \div BITS_PER_BYTE
           /\ j - 1 < (offset \div BITS_PER_BYTE)
                      + ((arr.dims + BITS_PER_BYTE - 1) \div BITS_PER_BYTE)
        THEN arr.nullbitmap[j - (offset \div BITS_PER_BYTE)]
        ELSE nulls[j]]

\* lines 302-306: the chunk's null bitmap is allocated, zeroed, when the
\* first array with a null bitmap comes
AllocNulls(nulls, arr) ==
    IF arr.hasnull /\ nulls = << >>
    THEN [j \in 1..(PGSTROM_CHUNK_SIZE \div BITS_PER_BYTE) |-> 0]
    ELSE nulls

\* lines 312-315
LoadNulls(nulls, offset, arr) ==
    IF arr.hasnull THEN CopyNulls(AllocNulls(nulls, arr), offset, arr)
    ELSE nulls

\* the assertions of lines 292-293 on a tuple's offset in the chunk
OffsetAsserted(offset) ==
    /\ offset >= 0 /\ offset < PGSTROM_CHUNK_SIZE
    /\ offset % BITS_PER_BYTE = 0

\* one pass of the loop of lines 271-316, for the tuple arr
RECURSIVE LoadTuples(_, _, _, _, _, _, _)
LoadTuple(todo, arr, base, values, nulls, g, holds, overrun) ==
    LoadTuples(todo \ {arr}, base,
               CopyValues(values, arr.rowid - base, arr, g),
               LoadNulls(nulls, arr.rowid - base, arr),
               g,
               holds /\ OffsetAsserted(arr.rowid - base),
               overrun \/ (arr.rowid - base) + arr.dims > PGSTROM_CHUNK_SIZE)

\* the loop of lines 271-316 over the tuples the ranged scan returns, in
\* key order; holds is FALSE once an assertion of lines 292-293 fails,
\* overrun is TRUE once a memcpy writes past the end of a chunk buffer
LoadTuples(todo, base, values, nulls, g, holds, overrun) ==
    IF todo = {}
    THEN [values |-> values, nulls |-> nulls, holds |-> holds,
          overrun |-> overrun]
    ELSE LoadTuple(todo,
                   CHOOSE a \in todo : \A b \in todo : a.rowid <= b.rowid,
                   base, values, nulls, g, holds, overrun)

\* lines 257-269: the tuples of the ranged scan over
\* [rowid, rowid + PGSTROM_CHUNK_SIZE)
InChunkRange(store, chunk) ==
    {a \in store : /\ a.rowid >= chunk.rowid
                   /\ a.rowid < chunk.rowid + PGSTROM_CHUNK_SIZE}

\* lines 250-252: the zeroed value buffer
ZeroedValues == [i \in 1..PGSTROM_CHUNK_SIZE |-> 0]

\* lines 323-330: no tuple found, every item is marked null
AllNulls == [j \in 1..(PGSTROM_CHUNK_SIZE \div BITS_PER_BYTE) |-> 255]

\* the chunk with the buffers l of column attnum
WithColumn(chunk, attnum, l) ==
    [chunk |-> [chunk EXCEPT !.cs_values[attnum] = l.values,
                             !.cs_nulls[attnum] = l.nulls],
     holds |-> l.holds, overrun |-> l.overrun]

\* pgstrom_load_column_store (lines 231-332): the eager bulk load of one
\* column of a chunk
pgstrom_load_column_store(store, chunk, attnum, g) ==
    IF InChunkRange(store, chunk) = {}
    THEN WithColumn(chunk, attnum,
                    [values |-> ZeroedValues, nulls |-> AllNulls,
                     holds |-> TRUE, overrun |-> FALSE])
    ELSE WithColumn(chunk, attnum,
                    LoadTuples(InChunkRange(store, chunk), chunk.rowid,
                               ZeroedValues, chunk.cs_nulls[attnum], g,
                               TRUE, FALSE))

\* the loop of lines 375-377 over the clause columns, lowest first
RECURSIVE LoadClauseCols(_, _, _, _, _, _)
LoadedClauseCol(stores, l, temp, attnum, g, holds, overrun) ==
    LoadClauseCols(stores, l.chunk, temp \ {attnum}, g, holds /\ l.holds,
                   overrun \/ l.overrun)

ClauseCol(stores, chunk, temp, attnum, g, holds, overrun) ==
    LoadedClauseCol(stores,
                    pgstrom_load_column_store(stores[attnum], chunk, attnum, g),
                    temp, attnum, g, holds, overrun)

LoadClauseCols(stores, chunk, temp, g, holds, overrun) ==
    IF temp = {}
    THEN [chunk |-> chunk, holds |-> holds, overrun |-> overrun]
    ELSE ClauseCol(stores, chunk, temp, SetMin(temp), g, holds, overrun)

\* lines 358-363: a new chunk for one tuple of the rowid store
NewChunk(tuple) ==
    [rowid |-> tuple.rowid, rowmap |-> tuple.rowmap,
     cs_values |-> [c \in Cols |-> << >>],
     cs_nulls |-> [c \in Cols |-> << >>],
     stages |-> << >>]

\* lappend of a chunk to one of the session's three lists
Enlist(st, list, chunk) ==
    [st EXCEPT ![list] = Append(@, [chunk EXCEPT !.stages = Append(@, list)])]

\* a loader that queued every chunk for execution as well
AppendLoadedChunkAlsoPending(st, chunk) ==
    Enlist(Enlist(st, "chunk_exec_pending_list", chunk),
           "chunk_ready_list", chunk)

\* where a loaded chunk goes (lines 385-386 and 393-394)
AppendLoadedChunk(st, chunk) == Enlist(st, "chunk_ready_list", chunk)

\* the number of tuples a heap scan has gone past: none before its first
\* fetch, and none again once a fetch has run off the end of the relation
ScanPosition(scan) == IF scan.inited THEN scan.pos ELSE 0

\* heap_getnext(ri_scan, ForwardScanDirection) (line 348), given the
\* position pos the scan stands at; the scan counts its calls.  A fetch
\* that runs off the end returns no tuple and leaves the scan as before its
\* first fetch, so that a further fetch starts over at the first tuple.
FetchNext(rel, scan, pos) ==
    IF pos < Len(rel)
    THEN [valid |-> TRUE, tuple |-> rel[pos + 1],
          scan |-> [scan EXCEPT !.pos = pos + 1, !.inited = TRUE,
                                !.calls = @ + 1]]
    ELSE [valid |-> FALSE, tuple |-> [rowid |-> -1, rowmap |-> << >>],
          scan |-> [scan EXCEPT !.pos = pos, !.inited = FALSE,
                                !.calls = @ + 1]]

heap_getnext(rel, scan) == FetchNext(rel, scan, ScanPosition(scan))

\* lines 367-395 for the chunk of one tuple: its clause columns are loaded
\* unless the scan is predictable, and it is put on a list
RECURSIVE LoadChunks(_, _, _, _, _, _, _, _)
LoadedChunk(st, rel, stores, num_chunks, g, loaded, l) ==
    LoadChunks(AppendLoadedChunk(st, l.chunk), rel, stores, num_chunks, g,
               loaded + 1, l.holds, l.overrun)

\* lines 348-395, given the result t of heap_getnext
LoadChunk(st, rel, stores, num_chunks, g, loaded, holds, overrun, t) ==
    IF ~t.valid
    THEN [st |-> [st EXCEPT !.ri_scan = t.scan], loaded |-> loaded,
          holds |-> holds, overrun |-> overrun]
    ELSE IF st.predictable = 0
    THEN LoadedChunk([st EXCEPT !.ri_scan = t.scan], rel, stores, num_chunks,
                     g, loaded,
                     LoadClauseCols(stores, NewChunk(t.tuple), st.clause_cols,
                                    g, holds, overrun))
    ELSE LoadedChunk([st EXCEPT !.ri_scan = t.scan], rel, stores, num_chunks,
                     g, loaded,
                     [chunk |-> NewChunk(t.tuple), holds |-> holds,
                      overrun |-> overrun])

\* a loop that went round once more than it was asked to
LoadChunksOneMore(st, rel, stores, num_chunks, g, loaded, holds, overrun) ==
    IF loaded > num_chunks
    THEN [st |-> st, loaded |-> loaded, holds |-> holds, overrun |-> overrun]
    ELSE LoadChunk(st, rel, stores, num_chunks, g, loaded, holds, overrun,
                   heap_getnext(rel, st.ri_scan))

\* the loop of lines 339-396; loaded counts loaded_chunks
LoadChunks(st, rel, stores, num_chunks, g, loaded, holds, overrun) ==
    IF loaded >= num_chunks
    THEN [st |-> st, loaded |-> loaded, holds |-> holds, overrun |-> overrun]
    ELSE LoadChunk(st, rel, stores, num_chunks, g, loaded, holds, overrun,
                   heap_getnext(rel, st.ri_scan))

\* pgstrom_load_chunk_buffer (lines 334-398)
pgstrom_load_chunk_buffer(st, rel, stores, num_chunks, g) ==
    LoadChunks(st, rel, stores, num_chunks, g, 0, TRUE, FALSE)

(***************************************************************************)
(* The scan iterator (lines 540-606 and 801-872)                           *)
(***************************************************************************)
\* ExecClearTuple(slot) (line 808)
EmptySlot ==
    [empty |-> TRUE, tts_values |-> [c \in Cols |-> 0],
     tts_isnull |-> [c \in Cols |-> TRUE]]

\* no lookup made on a column yet
IdleProbe ==
    [path |-> "idle", rowid |-> -1, fetches |-> 0, rescans |-> 0,
     value |-> 0, isnull |-> TRUE]

\* what the lookup l of rowid did and gave
ProbeOf(l, rowid) ==
    [path |-> l.path, rowid |-> rowid, fetches |-> l.fetches,
     rescans |-> l.rescans, value |-> l.value, isnull |-> l.isnull]

\* one column's cache and scan out of the session state
ColumnCache(st, c) ==
    [scan |-> st.cs_scan[c], values |-> st.cs_cur_values[c],
     min |-> st.cs_cur_rowid_min[c], max |-> st.cs_cur_rowid_max[c]]

\* lines 576-594: the value of a column the chunk holds, at bit offset index
ChunkValue(chunk, c, index) ==
    IF \/ chunk.cs_nulls[c] = << >>
       \/ ~BitIsSet(chunk.cs_nulls[c][IndexH(index)], IndexL(index))
    THEN [value |-> chunk.cs_values[c][index + 1], isnull |-> FALSE]
    ELSE [value |-> 0, isnull |-> TRUE]

\* lines 546-556: the bit offsets the loop can stop at, from curr_index on
LiveFrom(chunk, curr_index) ==
    {i \in curr_index..(VARBITLEN(chunk.rowmap) - 1) :
        BitIsSet(chunk.rowmap[IndexH(i)], IndexL(i))}

\* a column of the row, as the slot gets it
ColumnResult(kind, v, l) ==
    [kind |-> kind, value |-> v.value, isnull |-> v.isnull, lookup |-> l]

\* line 600: the column comes from the lookup l
LookedUpColumn(l) == ColumnResult("lookup", l, l)

\* lines 559-601 for one column c of the row at (chunk, index)
ColumnOfRow(st, stores, chunk, index, c) ==
    IF c \notin st.required_cols
    THEN ColumnResult("unreferenced", [value |-> 0, isnull |-> TRUE], FALSE)
    ELSE IF chunk.cs_values[c] /= << >>
    THEN ColumnResult("loaded", ChunkValue(chunk, c, index), FALSE)
    ELSE LookedUpColumn(pgstrom_scan_column_store(stores[c],
                                                  ColumnCache(st, c),
                                                  chunk.rowid + index))

\* the columns whose lookup ran: those before the first one that crashed
LookedUp(col) ==
    {c \in Cols : /\ col[c].kind = "lookup"
                  /\ \A d \in Cols : (d < c /\ col[d].kind = "lookup")
                                        => ~col[d].lookup.crashed}

\* lines 558-603: the row at (chunk, index), with the columns col resolved
RowOf(st, chunk, index, col) ==
    [found |-> TRUE,
     st |-> [st EXCEPT
         !.cs_scan = [c \in Cols |->
             IF c \in LookedUp(col) /\ ~col[c].lookup.crashed
             THEN col[c].lookup.cache.scan ELSE @[c]],
         !.cs_cur_values = [c \in Cols |->
             IF c \in LookedUp(col) /\ ~col[c].lookup.crashed
             THEN col[c].lookup.cache.values ELSE @[c]],
         !.cs_cur_rowid_min = [c \in Cols |->
             IF c \in LookedUp(col) /\ ~col[c].lookup.crashed
             THEN col[c].lookup.cache.min ELSE @[c]],
         !.cs_cur_rowid_max = [c \in Cols |->
             IF c \in LookedUp(col) /\ ~col[c].lookup.crashed
             THEN col[c].lookup.cache.max ELSE @[c]]],
     slot |-> [empty |-> FALSE,
               tts_values |-> [c \in Cols |-> col[c].value],
               tts_isnull |-> [c \in Cols |-> col[c].isnull]],
     rowid |-> chunk.rowid + index,
     probes |-> [c \in LookedUp(col) |->
                    ProbeOf(col[c].lookup, chunk.rowid + index)],
     holds |-> \A c \in LookedUp(col) : col[c].lookup.asserted,
     crashed |-> \E c \in LookedUp(col) : col[c].lookup.crashed]

\* no row: the cleared slot
NoRow ==
    [found |-> FALSE, slot |-> EmptySlot, rowid |-> -1,
     probes |-> [c \in {} |-> IdleProbe], holds |-> TRUE, crashed |-> FALSE]

\* lines 546-605, given the live bit offsets from curr_index on
ScanFrom(st, stores, chunk, live) ==
    IF live = {}
    THEN NoRow @@ [st |-> st]
    ELSE RowOf(st, chunk, SetMin(live),
               [c \in Cols |-> ColumnOfRow(st, stores, chunk, SetMin(live), c)])

\* pgstrom_scan_chunk_buffer (lines 540-606); curr_index is read, and not
\* written
pgstrom_scan_chunk_buffer(st, stores) ==
    ScanFrom(st, stores, st.chunk_ready_list[st.curr_chunk],
             LiveFrom(st.chunk_ready_list[st.curr_chunk], st.curr_index))

\* the result of one call of the iterator: outcome is "row", "end" (the
\* cleared slot is returned), "crash" or "hang" (the loop of lines 845-863
\* cannot leave)
IterateResult(st, outcome, r, holds, overrun) ==
    [st |-> st, outcome |-> outcome, slot |-> r.slot, rowid |-> r.rowid,
     probes |-> r.probes, holds |-> holds, overrun |-> overrun]

\* an iterator that never took the short cut of line 809
DefinitelyEmptyNever(st) == st.predictable < -1

\* line 809: the result set is known to be empty
DefinitelyEmpty(st) == st.predictable < 0

\* a request that took the chunks ready for the chunks in flight
NumChunksLessReady(st) ==
    pgstrom_max_async_chunks - Len(st.chunk_ready_list)

\* lines 815-816 and 841-842: how many chunks to ask the loader for
NumChunks(st) == pgstrom_max_async_chunks - Len(st.chunk_exec_list)

\* the rounds of the loop of lines 826-870 after which a call that has
\* not returned never will.  A round consumes one chunk and loads the next
\* ones, the loader reading the rowid store over and over; a chunk with a
\* live row is reached, or the ready list runs out on an exhausted store,
\* within the chunks ahead plus two passes over the store, or never.
LoopRounds(st, rel) == Len(st.chunk_ready_list) + 2 * Len(rel) + 4

\* lines 841-869, given the result l of the loader: step to the next chunk
\* of the ready list, or return the cleared slot when there is none and
\* nothing is pending or executing; rounds are the rounds left before the
\* loop is known to go on for ever
RECURSIVE Retry(_, _, _, _, _, _, _)
NextChunk(st, rel, stores, g, holds, overrun, rounds, l) ==
    IF st.curr_chunk < Len(l.st.chunk_ready_list)
    THEN IF rounds = 0
         THEN IterateResult(l.st, "hang", NoRow, holds /\ l.holds,
                            overrun \/ l.overrun)
         ELSE Retry([l.st EXCEPT !.curr_chunk = @ + 1, !.curr_index = 0],
                    rel, stores, g, holds /\ l.holds, overrun \/ l.overrun,
                    rounds - 1)
    ELSE IF /\ l.st.chunk_exec_list = << >>
            /\ l.st.chunk_exec_pending_list = << >>
    THEN IterateResult(l.st, "end", NoRow, holds /\ l.holds,
                       overrun \/ l.overrun)
    ELSE IterateResult(l.st, "hang", NoRow, holds /\ l.holds,
                       overrun \/ l.overrun)

\* lines 828-871, given the result r of pgstrom_scan_chunk_buffer
Scanned(st, rel, stores, g, holds, overrun, rounds, r) ==
    IF r.crashed
    THEN IterateResult(r.st, "crash", r, holds /\ r.holds, overrun)
    ELSE IF r.found
    THEN IterateResult(r.st, "row", r, holds /\ r.holds, overrun)
    ELSE NextChunk(st, rel, stores, g, holds, overrun, rounds,
                   pgstrom_load_chunk_buffer(st, rel, stores, NumChunks(st), g))

\* lines 826-870: scan the current chunk; when it is used up, load more
\* chunks and step to the next one on the ready list
Retry(st, rel, stores, g, holds, overrun, rounds) ==
    Scanned(st, rel, stores, g, holds, overrun, rounds,
            pgstrom_scan_chunk_buffer(st, stores))

\* lines 817-825, given the result l of the first load
FirstLoaded(rel, stores, g, l) ==
    IF l.loaded = 0
    THEN IterateResult(l.st, "end", NoRow, l.holds, l.overrun)
    ELSE IF l.st.chunk_ready_list = << >>
    THEN IterateResult(l.st, "crash", NoRow, FALSE, l.overrun)
    ELSE Retry([l.st EXCEPT !.curr_chunk = 1, !.curr_index = 0],
               rel, stores, g, l.holds, l.overrun, LoopRounds(l.st, rel))

\* pgstrom_iterate_foreign_scan (lines 801-872); curr_chunk is the position
\* of the current cell in the ready list, 0 while it is NULL
pgstrom_iterate_foreign_scan(st, rel, stores, g) ==
    IF DefinitelyEmpty(st)
    THEN IterateResult(st, "end", NoRow, TRUE, FALSE)
    ELSE IF st.curr_chunk = 0
    THEN FirstLoaded(rel, stores, g,
                     pgstrom_load_chunk_buffer(st, rel, stores,
                                               NumChunks(st), g))
    ELSE Retry(st, rel, stores, g, TRUE, FALSE, LoopRounds(st, rel))

(***************************************************************************)
(* Session set-up and teardown (lines 608-799 and 884-928)                 *)
(***************************************************************************)
\* a handle the session acquires: a relation, a scan, a device resource
Handle(kind, no) == [kind |-> kind, no |-> no]

RECURSIVE Flatten(_)
Flatten(ss) == IF ss = << >> THEN << >> ELSE Head(ss) \o Flatten(Tail(ss))

\* the handles H(i), for i from lo to hi ascending, as one sequence
ForEach(lo, hi, H(_)) == Flatten([i \in 1..(hi - lo + 1) |-> H(lo + i - 1)])

\* lines 629-635: the planner's "predictable" parameter; without it the
\* field stays 0 (palloc0, line 618)
ParsePredictable(arg) ==
    CASE arg = "true" -> 1
      [] arg = "false" -> -1
      [] OTHER -> 0

\* pgstrom_init_exec_state (lines 608-755), when no device call fails;
\* allocated tells the state from a NULL pointer (palloc0, lines 618-623)
pgstrom_init_exec_state(private) ==
    [allocated |-> TRUE,
     predictable |-> ParsePredictable(private.predictable),
     required_cols |-> private.required_cols,
     clause_cols |-> private.clause_cols,
     relset |-> FALSE,
     ri_scan |-> [open |-> FALSE, pos |-> 0, inited |-> FALSE, calls |-> 0],
     cs_scan |-> [c \in Cols |-> NullScan],
     cs_cur_values |-> [c \in Cols |-> NullArray],
     cs_cur_rowid_min |-> [c \in Cols |-> 0],
     cs_cur_rowid_max |-> [c \in Cols |-> 0],
     chunk_exec_pending_list |-> << >>,
     chunk_exec_list |-> << >>,
     chunk_ready_list |-> << >>,
     curr_chunk |-> 0,
     curr_index |-> 0,
     device_program |-> ParsePredictable(private.predictable) = 0,
     device_command_queue |->
        IF ParsePredictable(private.predictable) = 0
        THEN pgstrom_num_devices ELSE 0]

\* what pgstrom_init_exec_state acquires: the program, then one command
\* queue per device (lines 676-742); nothing for a predictable scan (669)
DeviceHandles(st) ==
    IF st.device_program
    THEN <<Handle("device_program", 0)>>
         \o ForEach(0, st.device_command_queue - 1,
                    LAMBDA i : <<Handle("device_command_queue", i)>>)
    ELSE << >>

\* what pgstrom_open_relation_set opens with with_index = true, in order
\* (lines 84-132); no column of the model's relation is dropped
RelationSetHandles ==
    <<Handle("rowid_rel", 0), Handle("rowid_idx", 0)>>
    \o ForEach(1, NAttrs,
               LAMBDA i : <<Handle("cs_rel", i), Handle("cs_idx", i)>>)

\* the columns begin opens an index scan for (lines 781-795)
LazyCols(st) == st.required_cols \ st.clause_cols

\* pgstrom_begin_foreign_scan (lines 757-799): the session state
pgstrom_begin_foreign_scan(private) ==
    LET st == pgstrom_init_exec_state(private)
    IN  [st EXCEPT
            !.relset = TRUE,
            !.ri_scan = [open |-> TRUE, pos |-> 0, inited |-> FALSE,
                         calls |-> 0],
            !.cs_scan = [c \in Cols |->
                IF c \in LazyCols(st) THEN index_beginscan ELSE NullScan]]

\* the handles begin acquires, in order
BeginHandles(st) ==
    DeviceHandles(st) \o RelationSetHandles \o <<Handle("ri_scan", 0)>>
    \o ForEach(1, NAttrs,
               LAMBDA i : IF i \in LazyCols(st)
                          THEN <<Handle("cs_scan", i)>> ELSE << >>)

\* what can go wrong in begin: nothing; the base relation is no foreign
\* table (line 49) or not one of pg_strom (line 60); a companion object is
\* of the wrong kind (lines 85, 95, 114, 126); the program cannot be created
\* (line 680) or built (line 690); the command queue of a device cannot be
\* created (line 731)
NoFault == Handle("none", 0)

SchemaFaults ==
    {Handle("base_rel", 0), Handle("fdw", 0)}
        \cup {RelationSetHandles[k] : k \in DOMAIN RelationSetHandles}

DeviceFaults ==
    {Handle("device_program", 0), Handle("build", 0)}
        \cup {Handle("device_command_queue", i) :
                 i \in 0..(pgstrom_num_devices - 1)}

Faults == {NoFault} \cup SchemaFaults \cup DeviceFaults

\* what a part of begin did: the handles it acquired and released, in
\* order, and the error it raised ("none" when it returned)
Outcome(acquired, released, error) ==
    [acquired |-> acquired, released |-> released, error |-> error]

\* a variant that releases the queues created in the order of their creation
ReleasedQueuesForward(i) ==
    [k \in 1..i |-> Handle("device_command_queue", k - 1)]

\* lines 733-734: while (i > 0) clReleaseCommandQueue(queue[--i])
ReleasedQueues(i) ==
    [k \in 1..i |-> Handle("device_command_queue", i - k)]

\* the queues of devices 0 .. i-1, in the order the loop of lines 724-742
\* creates them
CreatedQueues(i) ==
    [k \in 1..i |-> Handle("device_command_queue", k - 1)]

\* lines 669-742: the device set-up of pgstrom_init_exec_state, skipped for
\* a predictable scan
DeviceSetup(st, fault) ==
    IF st.predictable /= 0
    THEN Outcome(<< >>, << >>, "none")
    ELSE IF fault = Handle("device_program", 0)
    THEN Outcome(<< >>, << >>, "program")
    ELSE IF fault = Handle("build", 0)
    THEN Outcome(<<Handle("device_program", 0)>>,
                 <<Handle("device_program", 0)>>, "build")
    ELSE IF fault.kind = "device_command_queue"
    THEN Outcome(<<Handle("device_program", 0)>> \o CreatedQueues(fault.no),
                 ReleasedQueues(fault.no) \o <<Handle("device_program", 0)>>,
                 "queue")
    ELSE Outcome(DeviceHandles(st), << >>, "none")

\* the position of handle h in the sequence hs
IndexOf(hs, h) == CHOOSE k \in DOMAIN hs : hs[k] = h

\* pgstrom_open_relation_set (lines 35-142): the checks on the base
\* relation come first; each companion object is opened and then checked,
\* and a failed check raises the error with what was opened left open
pgstrom_open_relation_set(fault) ==
    IF fault \in {Handle("base_rel", 0), Handle("fdw", 0)}
    THEN Outcome(<< >>, << >>, "schema")
    ELSE IF fault \in SchemaFaults
    THEN Outcome(SubSeq(RelationSetHandles, 1,
                        IndexOf(RelationSetHandles, fault)),
                 << >>, "schema")
    ELSE Outcome(RelationSetHandles, << >>, "none")

\* lines 771-777 when the relation set is opened after the device set-up d
Opened(private, d, o) ==
    IF o.error /= "none"
    THEN Outcome(d.acquired \o o.acquired, << >>, o.error)
         @@ [st |-> pgstrom_init_exec_state(private)]
    ELSE Outcome(BeginHandles(pgstrom_begin_foreign_scan(private)), << >>,
                 "none")
         @@ [st |-> pgstrom_begin_foreign_scan(private)]

\* pgstrom_begin_foreign_scan (lines 757-799) with what can go wrong: the
\* execution state is set up first (line 771), then the relation set is
\* opened (line 776); st is the state allocated, which fdw_state points to
\* only when begin returns (line 798)
BeginOutcome(private, fault, d) ==
    IF d.error /= "none"
    THEN d @@ [st |-> pgstrom_init_exec_state(private)]
    ELSE Opened(private, d, pgstrom_open_relation_set(fault))

\* pgstrom_close_relation_set (lines 144-163): the handles it closes, in
\* order
pgstrom_close_relation_set ==
    <<Handle("rowid_rel", 0), Handle("rowid_idx", 0)>>
    \o ForEach(1, NAttrs,
               LAMBDA i : <<Handle("cs_rel", i), Handle("cs_idx", i)>>)

\* a variant of pgboost_end_foreign_scan that releases the command queues
\* and leaves the program
EndForeignScanKeepsProgram(st) ==
    ForEach(1, NAttrs,
            LAMBDA i : IF st.cs_scan[i].open
                       THEN <<Handle("cs_scan", i)>> ELSE << >>)
    \o <<Handle("ri_scan", 0)>>
    \o pgstrom_close_relation_set
    \o IF st.device_program
       THEN ForEach(0, pgstrom_num_devices - 1,
                    LAMBDA i : <<Handle("device_command_queue", i)>>)
       ELSE << >>

\* pgboost_end_foreign_scan (lines 884-928): the handles it releases, in
\* order.  It reads the session state and leaves every pointer in it as it
\* was.
pgboost_end_foreign_scan(st) ==
    ForEach(1, NAttrs,
            LAMBDA i : IF st.cs_scan[i].open
                       THEN <<Handle("cs_scan", i)>> ELSE << >>)
    \o <<Handle("ri_scan", 0)>>
    \o pgstrom_close_relation_set
    \o IF st.device_program
       THEN ForEach(0, pgstrom_num_devices - 1,
                    LAMBDA i : <<Handle("device_command_queue", i)>>)
            \o <<Handle("device_program", 0)>>
       ELSE << >>

(***************************************************************************)
(* State                                                                   *)
(***************************************************************************)
VARIABLES
    fdw_private,      \* the planner's parameters (fdwplan->fdw_private)
    rowid_rel,        \* the row-validity store: tuples (rowid, rowmap)
    cs_rel,           \* the column stores: per column, a set of arrays
    phase,            \* "planned", "failed", "scanning", "ended", "crashed",
                      \* "hung"
    sestate,          \* the PgStromExecState of the session
    error,            \* the error begin raised, "none" if it returned
    loaded_chunks,    \* what the last call of the loader on its own
                      \* returned, -1 before it
    slot,             \* the slot the last iterator call returned
    calls,            \* iterator calls made
    emitted,          \* row identifiers of the rows returned, in order
    probe,            \* per column, what its last lazy lookup did
    asserts_hold,     \* FALSE once an assertion of the code did not hold
    acquired,         \* handles acquired, in order
    released,         \* handles released, in order
    ends              \* calls of pgboost_end_foreign_scan made

vars == <<fdw_private, rowid_rel, cs_rel, phase, sestate, error,
          loaded_chunks, slot, calls, emitted, probe, asserts_hold, acquired,
          released, ends>>

\* values a read past the end of an array's data area can produce
OverreadValues == {0, 7}

\* the bytes a stored row map is made of: no row, offsets 1 and 2, all rows
RowmapBytes == {0, 6, 255}

\* the row-validity stores: up to MaxChunks tuples, one per chunk-aligned
\* row identifier, ascending
RowidStores ==
    UNION {{[k \in 1..n |->
               [rowid |-> (k - 1) * PGSTROM_CHUNK_SIZE,
                rowmap |-> [j \in 1..ChunkBytes |-> b[k]]]] :
            b \in [1..n -> RowmapBytes]} : n \in 0..MaxChunks}

\* the arrays a column store may hold from row identifier s on: a full
\* chunk, a full chunk with a null item, half a chunk
ArraysAt(s) ==
    {MkArray(s, PGSTROM_CHUNK_SIZE, {}),
     MkArray(s, PGSTROM_CHUNK_SIZE, {1}),
     MkArray(s, PGSTROM_CHUNK_SIZE \div 2, {})}

\* column stores over the first two chunks: at most one array per chunk
Layouts ==
    {A \cup B :
        A \in {{}} \cup {{a} : a \in ArraysAt(0)},
        B \in {{}} \cup {{a} : a \in ArraysAt(PGSTROM_CHUNK_SIZE)}}

\* the column stores the scan sessions run on; the last holds an array
\* that starts in the first chunk and is longer than a chunk
SessionLayouts ==
    {{},
     {MkArray(0, PGSTROM_CHUNK_SIZE, {})},
     {MkArray(0, PGSTROM_CHUNK_SIZE, {1}),
      MkArray(PGSTROM_CHUNK_SIZE, PGSTROM_CHUNK_SIZE, {})},
     {MkArray(0, PGSTROM_CHUNK_SIZE \div 2, {}),
      MkArray(PGSTROM_CHUNK_SIZE, PGSTROM_CHUNK_SIZE, {})},
     {MkArray(0, PGSTROM_CHUNK_SIZE + PGSTROM_CHUNK_SIZE \div 2, {})}}

\* the scan descriptors the planner may hand to begin
Plans ==
    [predictable : {"absent", "true", "false"},
     required_cols : SUBSET Cols,
     clause_cols : SUBSET Cols]

\* fss->fdw_state before begin
NoSession ==
    [pgstrom_init_exec_state([predictable |-> "true", required_cols |-> {},
                              clause_cols |-> {}])
        EXCEPT !.allocated = FALSE]

InitSession ==
    /\ phase = "planned"
    /\ sestate = NoSession
    /\ error = "none"
    /\ loaded_chunks = -1
    /\ slot = EmptySlot
    /\ calls = 0
    /\ emitted = << >>
    /\ probe = [c \in Cols |-> IdleProbe]
    /\ asserts_hold = TRUE
    /\ acquired = << >>
    /\ released = << >>
    /\ ends = 0

Init ==
    /\ fdw_private \in Plans
    /\ rowid_rel \in RowidStores
    /\ \E L \in SessionLayouts : cs_rel = [c \in Cols |-> L]
    /\ InitSession

(***************************************************************************)
(* Actions                                                                 *)
(***************************************************************************)
\* begin(scan_descriptor): pgstrom_begin_foreign_scan
Begun(b) ==
    /\ sestate' = b.st
    /\ acquired' = b.acquired
    /\ released' = b.released
    /\ error' = b.error
    /\ phase' = IF b.error = "none" THEN "scanning" ELSE "failed"

Begin ==
    /\ phase = "planned"
    /\ \E fault \in Faults :
         Begun(BeginOutcome(fdw_private, fault,
                            DeviceSetup(pgstrom_init_exec_state(fdw_private),
                                        fault)))
    /\ UNCHANGED <<fdw_private, rowid_rel, cs_rel, loaded_chunks, slot,
                   calls, emitted, probe, asserts_hold, ends>>

\* lines 309-315: a memcpy that wrote past the end of a chunk buffer has
\* overwritten what the allocator placed behind it; the backend goes on to
\* phase p or crashes
AfterOverrun(overrun, p) == IF overrun THEN {p, "crashed"} ELSE {p}

\* the iterator call returned r (or crashed, or hangs)
Returned(r) ==
    /\ sestate' = r.st
    /\ slot' = IF r.outcome = "row" THEN r.slot ELSE EmptySlot
    /\ emitted' = IF r.outcome = "row" THEN Append(emitted, r.rowid)
                  ELSE emitted
    /\ probe' = [c \in Cols |->
                   IF c \in DOMAIN r.probes THEN r.probes[c] ELSE probe[c]]
    /\ asserts_hold' = (asserts_hold /\ r.holds)
    /\ phase' \in AfterOverrun(r.overrun,
                             CASE r.outcome = "crash" -> "crashed"
                               [] r.outcome = "hang" -> "hung"
                               [] OTHER -> "scanning")

\* next(session): pgstrom_iterate_foreign_scan
Iterate ==
    /\ phase = "scanning"
    /\ calls < MaxCalls
    /\ \E g \in OverreadValues :
         Returned(pgstrom_iterate_foreign_scan(sestate, rowid_rel, cs_rel, g))
    /\ calls' = calls + 1
    /\ UNCHANGED <<fdw_private, rowid_rel, cs_rel, error, loaded_chunks,
                   acquired, released, ends>>

\* end(session): pgboost_end_foreign_scan, the first call
End ==
    /\ phase = "scanning"
    /\ ends < MaxEnds
    /\ released' = released \o pgboost_end_foreign_scan(sestate)
    /\ ends' = ends + 1
    /\ phase' = "ended"
    /\ UNCHANGED <<fdw_private, rowid_rel, cs_rel, sestate, error,
                   loaded_chunks, slot, calls, emitted, probe, asserts_hold,
                   acquired>>

\* end(session) on a session that was ended before: fdw_state still points
\* to the session state, whose scans were ended and whose relation set was
\* freed (line 162).  The call hands them to the release functions again;
\* what reading the freed memory gives is not defined, so the call either
\* goes through all its releases or stops at the first of them.
EndAgain ==
    /\ phase = "ended"
    /\ ends < MaxEnds
    /\ ends' = ends + 1
    /\ \/ /\ released' = released \o pgboost_end_foreign_scan(sestate)
          /\ phase' = "ended"
       \/ /\ released' = Append(released, Head(pgboost_end_foreign_scan(sestate)))
          /\ phase' = "crashed"
    /\ UNCHANGED <<fdw_private, rowid_rel, cs_rel, sestate, error,
                   loaded_chunks, slot, calls, emitted, probe, asserts_hold,
                   acquired>>

Next == Begin \/ Iterate \/ End \/ EndAgain

Spec == Init /\ [][Next]_vars

(***************************************************************************)
(* The lazy lookup on its own: a session whose one required column is      *)
(* looked up at any row identifier, in any order                           *)
(***************************************************************************)
\* the row identifiers looked up: the first two chunks and one past them
LookupRowids == 0..(2 * PGSTROM_CHUNK_SIZE + 1)

InitLookup ==
    /\ \E c \in Cols :
          fdw_private = [predictable |-> "true", required_cols |-> {c},
                         clause_cols |-> {}]
    /\ rowid_rel = << >>
    /\ \E L \in Layouts : cs_rel = [c \in Cols |-> L]
    /\ InitSession

\* the lookup l of rowid on column c returned
LookedUpAt(c, rowid, l) ==
    /\ sestate' = [sestate EXCEPT
                      !.cs_scan[c] = l.cache.scan,
                      !.cs_cur_values[c] = l.cache.values,
                      !.cs_cur_rowid_min[c] = l.cache.min,
                      !.cs_cur_rowid_max[c] = l.cache.max]
    /\ slot' = [empty |-> FALSE,
                tts_values |-> [d \in Cols |-> IF d = c THEN l.value ELSE 0],
                tts_isnull |-> [d \in Cols |-> IF d = c THEN l.isnull
                                               ELSE TRUE]]
    /\ probe' = [probe EXCEPT ![c] = ProbeOf(l, rowid)]
    /\ asserts_hold' = (asserts_hold /\ l.asserted)

\* lookup(c, rowid): pgstrom_scan_column_store on a column begin opened
Lookup(c, rowid) ==
    /\ phase = "scanning"
    /\ sestate.cs_scan[c].open
    /\ LookedUpAt(c, rowid,
                  pgstrom_scan_column_store(cs_rel[c], ColumnCache(sestate, c),
                                            rowid))
    /\ UNCHANGED <<fdw_private, rowid_rel, cs_rel, phase, error,
                   loaded_chunks, calls, emitted, acquired, released, ends>>

NextLookup ==
    \/ Begin
    \/ \E c \in Cols, rowid \in LookupRowids : Lookup(c, rowid)

SpecLookup == InitLookup /\ [][NextLookup]_vars

(***************************************************************************)
(* The chunk loader on its own: load(session, max_chunks) called on a      *)
(* session begin has set up                                                *)
(***************************************************************************)
\* the numbers of chunks asked for: none, some, more than the store holds
LoadRequests == 0..(MaxChunks + 1)

\* the loader returned l
Loaded(l) ==
    /\ sestate' = l.st
    /\ loaded_chunks' = l.loaded
    /\ asserts_hold' = (asserts_hold /\ l.holds)
    /\ phase' \in AfterOverrun(l.overrun, phase)

\* load(session, num_chunks): pgstrom_load_chunk_buffer; calls counts the
\* calls made
Load(num_chunks) ==
    /\ phase = "scanning"
    /\ calls < MaxCalls
    /\ \E g \in OverreadValues :
         Loaded(pgstrom_load_chunk_buffer(sestate, rowid_rel, cs_rel,
                                          num_chunks, g))
    /\ calls' = calls + 1
    /\ UNCHANGED <<fdw_private, rowid_rel, cs_rel, error, slot, emitted,
                   probe, acquired, released, ends>>

NextLoad ==
    \/ Begin
    \/ \E num_chunks \in LoadRequests : Load(num_chunks)

SpecLoad == Init /\ [][NextLoad]_vars

(***************************************************************************)
(* Properties                                                              *)
(***************************************************************************)
\* the bit offset of row identifier r in the stored tuple t is set, read as
\* line 555 reads it
LiveIn(t, r) ==
    /\ r >= t.rowid
    /\ r < t.rowid + VARBITLEN(t.rowmap)
    /\ BitIsSet(t.rowmap[IndexH(r - t.rowid)], IndexL(r - t.rowid))

\* the row identifiers whose validity bit is set in the rowid store
LiveRows ==
    {r \in 0..(MaxChunks * PGSTROM_CHUNK_SIZE) :
        \E k \in DOMAIN rowid_rel : LiveIn(rowid_rel[k], r)}

\* how often row identifier r was returned
TimesEmitted(r) == Cardinality({i \in DOMAIN emitted : emitted[i] = r})

\* some iterator call of a running session returned end-of-scan
EndOfScanSeen == phase = "scanning" /\ calls > Len(emitted)

\* C1: over a full scan every row identifier whose validity bit is set is
\* returned exactly once (never twice, and once by the time end-of-scan is
\* returned), and no row identifier whose bit is unset is ever returned.
C1_EachLiveRowExactlyOnce ==
    sestate.predictable >= 0 =>
        /\ \A i \in DOMAIN emitted : emitted[i] \in LiveRows
        /\ \A r \in LiveRows : TimesEmitted(r) <= 1
        /\ EndOfScanSeen => \A r \in LiveRows : TimesEmitted(r) = 1

\* C2: the rows come in ascending order of row identifier, never more of
\* them than there are live bits, and end-of-scan is returned only after as
\* many rows as there are live bits.
C2_AscendingThenEndOfScan ==
    sestate.predictable >= 0 =>
        /\ \A i, j \in DOMAIN emitted : i < j => emitted[i] < emitted[j]
        /\ Len(emitted) <= Cardinality(LiveRows)
        /\ EndOfScanSeen => Len(emitted) = Cardinality(LiveRows)

\* the lookup of rowid on column c answered by the full index seek, from
\* the empty cache of a column begin has just opened
SeekFromEmpty(c, rowid) ==
    pgstrom_scan_column_store(cs_rel[c], EmptyCache(index_beginscan), rowid)

\* C3: whatever the cache and the scan were, a lookup returns the
\* (value, is_null) the full index seek from an empty cache returns for the
\* same column and row identifier.
C3_LookupIndependentOfCache ==
    \A c \in Cols :
        probe[c].path \in {"cache", "probe", "seek", "none"} =>
            /\ probe[c].value = SeekFromEmpty(c, probe[c].rowid).value
            /\ probe[c].isnull = SeekFromEmpty(c, probe[c].rowid).isnull

\* the cached array of column c covers rowid, both ends included
InCachedInterval(c, rowid) ==
    /\ sestate.cs_cur_values[c] /= NullArray
    /\ sestate.cs_cur_rowid_min[c] <= rowid
    /\ rowid <= sestate.cs_cur_rowid_max[c]

\* C4: a lookup of a row identifier inside the cached interval [min, max],
\* both ends included, is served from the cached array: no index fetch, no
\* re-seek, and the cached array, its interval and the scan stay as they
\* are.
C4_CachedIntervalServedInPlace ==
    [][\A c \in Cols, rowid \in LookupRowids :
          (InCachedInterval(c, rowid) /\ Lookup(c, rowid)) =>
              /\ probe'[c].path = "cache"
              /\ probe'[c].fetches = 0
              /\ probe'[c].rescans = 0
              /\ ColumnCache(sestate', c) = ColumnCache(sestate, c)]_vars

\* C4 witness: a lookup at the cached interval's upper end was served from
\* the cache.
C4_Witness ==
    \E c \in Cols :
        /\ probe[c].path = "cache"
        /\ probe[c].rowid = sestate.cs_cur_rowid_max[c]
        /\ sestate.cs_cur_values[c] /= NullArray

\* C5: for every live row of a chunk and every column the chunk was eagerly
\* loaded for, the chunk buffer gives the (value, is_null) the lazy lookup
\* gives for the same row identifier.
C5_EagerEqualsLazy ==
    \A k \in DOMAIN sestate.chunk_ready_list, c \in Cols :
        sestate.chunk_ready_list[k].cs_values[c] /= << >> =>
            \A i \in LiveFrom(sestate.chunk_ready_list[k], 0) :
                /\ ChunkValue(sestate.chunk_ready_list[k], c, i).value
                     = SeekFromEmpty(c, sestate.chunk_ready_list[k].rowid + i).value
                /\ ChunkValue(sestate.chunk_ready_list[k], c, i).isnull
                     = SeekFromEmpty(c, sestate.chunk_ready_list[k].rowid + i).isnull

\* C6: the chunks pending and executing together never number more than
\* pgstrom_max_async_chunks.
C6_InFlightBounded ==
    Len(sestate.chunk_exec_pending_list) + Len(sestate.chunk_exec_list)
        <= pgstrom_max_async_chunks

\* C6 witness: in a depends-on-data scan the loader has stopped at the
\* maximum with tuples of the rowid store still unread.
C6_Witness ==
    /\ sestate.predictable = 0
    /\ Len(sestate.chunk_ready_list) = pgstrom_max_async_chunks
    /\ sestate.ri_scan.pos < Len(rowid_rel)

\* the chunks on the three lists, as (list, position) pairs
Listed ==
    {<<l, k>> : l \in {"chunk_exec_pending_list", "chunk_exec_list",
                       "chunk_ready_list"},
                k \in 1..MaxChunks} \cap
    {<<l, k>> \in {"chunk_exec_pending_list", "chunk_exec_list",
                   "chunk_ready_list"} \X (1..MaxChunks) :
        k \in DOMAIN sestate[l]}

\* C7: no chunk is on two lists (or twice on one), and in a depends-on-data
\* scan a chunk on the ready list was pending and then executing before.
C7_ReadyOnlyAfterExecution ==
    /\ \A p, q \in Listed :
          p /= q => sestate[p[1]][p[2]].rowid /= sestate[q[1]][q[2]].rowid
    /\ sestate.predictable = 0 =>
          \A k \in DOMAIN sestate.chunk_ready_list :
              sestate.chunk_ready_list[k].stages =
                  <<"chunk_exec_pending_list", "chunk_exec_list",
                    "chunk_ready_list">>

\* C8: in a scan the planner marked definitely-empty every iterator call
\* returns end-of-scan, and the rowid store is never read, no chunk is
\* loaded and no column store is touched.
C8_DefinitelyEmptyTouchesNothing ==
    fdw_private.predictable = "false" =>
        /\ slot = EmptySlot
        /\ emitted = << >>
        /\ sestate.ri_scan.calls = 0
        /\ sestate.chunk_ready_list = << >>
        /\ sestate.chunk_exec_list = << >>
        /\ sestate.chunk_exec_pending_list = << >>
        /\ \A c \in Cols :
              /\ probe[c] = IdleProbe
              /\ sestate.cs_cur_values[c] = NullArray
              /\ sestate.cs_scan[c] \in {NullScan, index_beginscan}

\* C8 witness: a definitely-empty scan over a store with live rows and a
\* required column has been asked for a row twice.
C8_Witness ==
    /\ fdw_private.predictable = "false"
    /\ calls >= 2
    /\ LiveRows /= {}
    /\ fdw_private.required_cols /= {}

\* the column store of c holds no item for any row identifier of the chunk
\* that holds row identifier r
NoValuesInChunkOf(c, r) ==
    \A a \in cs_rel[c] :
        \/ a.rowid + a.dims <= r - (r % PGSTROM_CHUNK_SIZE)
        \/ a.rowid >= r - (r % PGSTROM_CHUNK_SIZE) + PGSTROM_CHUNK_SIZE

\* C9: a row returned from a chunk for whose range a required column's
\* store holds nothing reports null for that column, and no assertion has
\* failed on the way.
C9_EmptyRangeIsNullWithoutError ==
    (~slot.empty /\ emitted /= << >>) =>
        \A c \in sestate.required_cols :
            NoValuesInChunkOf(c, emitted[Len(emitted)]) =>
                /\ slot.tts_isnull[c]
                /\ asserts_hold

\* how often handle h was released
TimesReleased(h) == Cardinality({i \in DOMAIN released : released[i] = h})

\* C10: however often end is called, each handle is released at most once
\* and the call does not stop on released state.
C10_EndTwiceReleasesOnce ==
    /\ \A i \in DOMAIN released : TimesReleased(released[i]) <= 1
    /\ ends >= 1 => phase = "ended"

\* the tuples of the rowid store the scan has not gone past yet
Unread(st) == Len(rowid_rel) - ScanPosition(st.ri_scan)

\* C11: a call of the loader for num_chunks chunks returns a count between
\* 0 and num_chunks, appends that many chunks to the session, one per tuple
\* read from the rowid store and in the store's order, returns fewer than
\* num_chunks exactly when the store had fewer tuples left, and fails no
\* assertion.
C11_LoadCountsChunksInStoreOrder ==
    [][\A num_chunks \in LoadRequests :
          Load(num_chunks) =>
              /\ loaded_chunks' \in 0..num_chunks
              /\ (loaded_chunks' < num_chunks) <=> (Unread(sestate) < num_chunks)
              /\ num_chunks = 0 => sestate'.ri_scan = sestate.ri_scan
              /\ num_chunks > 0 =>
                    sestate'.ri_scan.pos
                        = ScanPosition(sestate.ri_scan) + loaded_chunks'
              /\ Len(sestate'.chunk_ready_list)
                    = Len(sestate.chunk_ready_list) + loaded_chunks'
              /\ \A k \in DOMAIN sestate.chunk_ready_list :
                    sestate'.chunk_ready_list[k] = sestate.chunk_ready_list[k]
              /\ \A k \in 1..loaded_chunks' :
                    /\ sestate'.chunk_ready_list[
                           Len(sestate.chunk_ready_list) + k].rowid
                         = rowid_rel[ScanPosition(sestate.ri_scan) + k].rowid
                    /\ sestate'.chunk_ready_list[
                           Len(sestate.chunk_ready_list) + k].rowmap
                         = rowid_rel[ScanPosition(sestate.ri_scan) + k].rowmap
              /\ asserts_hold' = asserts_hold]_vars

\* C11 witness: the last call of the loader loaded a chunk and then found
\* the rowid store exhausted.
C11_Witness ==
    /\ loaded_chunks >= 1
    /\ sestate.ri_scan.pos = Len(rowid_rel)
    /\ ~sestate.ri_scan.inited

\* an iterator call returns end-of-scan: the session goes on, one more call
\* is counted and no row was added
ReportsEndOfScan ==
    /\ phase = "scanning"
    /\ phase' = "scanning"
    /\ calls' = calls + 1
    /\ emitted' = emitted

\* the rowid store has no tuple the session's scan has not read
StoreExhausted(st) == st.ri_scan.pos = Len(rowid_rel)

\* a list of the session holds a chunk that is not consumed: one pending or
\* executing, one on the ready list after the current chunk, or the current
\* chunk while a live row of it was not returned
HoldsUnconsumed(st) ==
    \/ st.chunk_exec_pending_list /= << >>
    \/ st.chunk_exec_list /= << >>
    \/ \E k \in DOMAIN st.chunk_ready_list : k > st.curr_chunk
    \/ /\ st.curr_chunk \in DOMAIN st.chunk_ready_list
       /\ \E i \in LiveFrom(st.chunk_ready_list[st.curr_chunk], 0) :
             \A j \in DOMAIN emitted :
                emitted[j] /= st.chunk_ready_list[st.curr_chunk].rowid + i

\* C12 as stated: whenever an iterator call returns end-of-scan, the rowid
\* store is exhausted and no list holds an unconsumed chunk, before the call
\* and after it.
C12_EndOfScanOnlyWhenAllConsumed ==
    [][ReportsEndOfScan =>
          /\ StoreExhausted(sestate')
          /\ ~HoldsUnconsumed(sestate)
          /\ ~HoldsUnconsumed(sestate')]_vars

\* C12 amended: in a scan the planner has not marked definitely-empty,
\* whenever an iterator call returns end-of-scan, the rowid store is
\* exhausted and no list holds an unconsumed chunk, before the call and
\* after it.
C12_EndOfScanOnlyWhenAllConsumedUnlessEmpty ==
    [][(ReportsEndOfScan /\ ~DefinitelyEmpty(sestate)) =>
          /\ StoreExhausted(sestate')
          /\ ~HoldsUnconsumed(sestate)
          /\ ~HoldsUnconsumed(sestate')]_vars

\* C12 witness: a scan not marked definitely-empty has walked two chunks
\* and returned end-of-scan.
C12_Witness ==
    /\ phase = "scanning"
    /\ calls > Len(emitted)
    /\ sestate.predictable >= 0
    /\ sestate.curr_chunk >= 2
    /\ StoreExhausted(sestate)

\* the handles of the sequence hs, as a set
HandlesOf(hs) == {hs[k] : k \in DOMAIN hs}

\* C13: the one call of end has closed every handle the relation set was
\* opened with exactly once, and the store and index of a column opened
\* later were closed before those of a column opened earlier.
C13_CloseReleasesColumnsInReverse ==
    (phase = "ended" /\ ends = 1) =>
        /\ \A h \in HandlesOf(RelationSetHandles) : TimesReleased(h) = 1
        /\ \A i, j \in Cols :
              i < j =>
                 /\ IndexOf(released, Handle("cs_rel", j))
                      < IndexOf(released, Handle("cs_rel", i))
                 /\ IndexOf(released, Handle("cs_idx", j))
                      < IndexOf(released, Handle("cs_idx", i))

\* C14: when begin has failed with a schema error, every handle of the
\* relation set that was opened before the object found to be of the wrong
\* kind has been released.
C14_OpenFailureReleasesEarlierHandles ==
    (phase = "failed" /\ error = "schema") =>
        \A k \in DOMAIN acquired :
            (k < Len(acquired)
                /\ acquired[k] \in HandlesOf(RelationSetHandles))
            => TimesReleased(acquired[k]) = 1

\* the device resources a session can hold
DeviceResources ==
    {Handle("device_program", 0)}
        \cup {Handle("device_command_queue", i) :
                 i \in 0..(pgstrom_num_devices - 1)}

\* C15: when begin has failed with a schema error, no execution state was
\* allocated for the session and no device program or command queue was
\* created for it.
C15_SchemaErrorBeforeAnyState ==
    (phase = "failed" /\ error = "schema") =>
        /\ ~sestate.allocated
        /\ HandlesOf(acquired) \cap DeviceResources = {}

\* C16: when the device set-up of begin has failed, the session never
\* iterates, only device resources were created, and they were released
\* before the error, each exactly once: the program on a build failure;
\* on a queue failure the queues created, the last created first, and then
\* the program.
C16_DeviceFailureReleasesInReverse ==
    (phase = "failed" /\ error \in {"program", "build", "queue"}) =>
        /\ calls = 0
        /\ emitted = << >>
        /\ HandlesOf(acquired) \subseteq DeviceResources
        /\ Len(released) = Len(acquired)
        /\ \A h \in HandlesOf(acquired) : TimesReleased(h) = 1
        /\ \A k \in DOMAIN released :
              released[k] = acquired[Len(acquired) - k + 1]
        /\ error = "program" => acquired = << >>
        /\ error = "build" => released = <<Handle("device_program", 0)>>
        /\ error = "queue" =>
              released[Len(released)] = Handle("device_program", 0)

\* C16 witness: the queue of the third device could not be created, and
\* two queues and the program were released.
C16_Witness ==
    /\ phase = "failed"
    /\ error = "queue"
    /\ Len(released) = 3

\* a stored array of column c covers row identifier r
Covered(c, r) ==
    \E a \in cs_rel[c] : a.rowid <= r /\ r < a.rowid + a.dims

\* C17: in a chunk eagerly loaded for a column, every row offset that no
\* stored array of the column covers is marked null, whether the column
\* store holds arrays for a part of the chunk's range or for none of it.
C17_UncoveredOffsetsAreNull ==
    \A k \in DOMAIN sestate.chunk_ready_list, c \in Cols :
        sestate.chunk_ready_list[k].cs_values[c] /= << >> =>
            \A i \in 0..(PGSTROM_CHUNK_SIZE - 1) :
                ~Covered(c, sestate.chunk_ready_list[k].rowid + i) =>
                    ChunkValue(sestate.chunk_ready_list[k], c, i).isnull

\* the stored array of column c immediately following the cached one: the
\* one with the smallest row identifier above the cached array's
Following(c) ==
    {a \in cs_rel[c] :
        /\ a.rowid > sestate.cs_cur_rowid_min[c]
        /\ \A b \in cs_rel[c] :
              b.rowid > sestate.cs_cur_rowid_min[c] => a.rowid <= b.rowid}

\* C18: after a full index seek has cached an array of a column, the forward
\* fetch on the column's index cursor returns the stored array immediately
\* following the cached one, so that a lookup in that array is served by
\* the forward probe.
C18_SeekLeavesFollowingArrayNext ==
    \A c \in Cols :
        (probe[c].path = "seek" /\ Following(c) /= {}) =>
            /\ index_getnext(cs_rel[c], sestate.cs_scan[c], "Forward").valid
            /\ index_getnext(cs_rel[c], sestate.cs_scan[c],
                             "Forward").tuple \in Following(c)

\* the chunks of the ready list the iterator has walked and stepped past:
\* those before the current one (lines 865-867)
ConsumedChunks(st) ==
    {k \in DOMAIN st.chunk_ready_list : k < st.curr_chunk}

\* the chunks whose buffers were released (lines 907-914)
ReleasedChunks ==
    {released[k].no : k \in {j \in DOMAIN released :
                                released[j].kind = "chunk"}}

\* C19: the ready list never retains a chunk the iterator has stepped past,
\* and once end has returned every chunk the scan created has been
\* released.
C19_ConsumedChunksAreReleased ==
    /\ ConsumedChunks(sestate) = {}
    /\ phase = "ended" =>
          \A k \in DOMAIN sestate.chunk_ready_list :
              sestate.chunk_ready_list[k].rowid \in ReleasedChunks

\* C20: the one call of end has released the compiled program and every
\* command queue begin created, each exactly once, whatever chunks the
\* session holds; for a predictable scan begin created no device resource
\* and end has released none.
C20_EndReleasesDeviceResourcesOnce ==
    (phase = "ended" /\ ends = 1) =>
        /\ \A h \in DeviceResources :
              TimesReleased(h) = IF h \in HandlesOf(acquired) THEN 1 ELSE 0
        /\ sestate.predictable = 0 =>
              DeviceResources \subseteq HandlesOf(acquired)
        /\ sestate.predictable /= 0 =>
              DeviceResources \cap (HandlesOf(acquired)
                                      \cup HandlesOf(released)) = {}

\* C20 witness: end was called once on a scan that is not predictable while
\* the ready list held chunks, and the program was released.
C20_Witness ==
    /\ phase = "ended"
    /\ ends = 1
    /\ sestate.predictable = 0
    /\ sestate.chunk_ready_list /= << >>
    /\ TimesReleased(Handle("device_program", 0)) = 1

\* C21: whenever the iterator has resolved a column of a row through the
\* lazy lookup, begin had opened the index scan of that column, whatever
\* the plan's predictable, required columns and clause columns are.
C21_LazyLookupHasOpenScan ==
    \A c \in Cols :
        probe[c].path /= "idle" => sestate.cs_scan[c].open

\* C22: after a full index seek of the lazy lookup has found a tuple, the
\* row identifier looked up lies inside the interval just cached, both
\* ends included, whatever arrays the column store holds.
C22_SeekCachesIntervalAroundRowid ==
    \A c \in Cols :
        probe[c].path = "seek" =>
            /\ sestate.cs_cur_rowid_min[c] <= probe[c].rowid
            /\ probe[c].rowid <= sestate.cs_cur_rowid_max[c]

\* C23: for every chunk a column was eagerly loaded into and every stored
\* array the ranged scan of the load returned, the array's items were
\* written inside the chunk's buffers: its offset in the chunk is not
\* negative and offset plus number of items is at most PGSTROM_CHUNK_SIZE.
C23_EagerWritesStayInsideChunk ==
    \A k \in DOMAIN sestate.chunk_ready_list, c \in Cols :
        sestate.chunk_ready_list[k].cs_values[c] /= << >> =>
            \A a \in InChunkRange(cs_rel[c], sestate.chunk_ready_list[k]) :
                /\ 0 <= a.rowid - sestate.chunk_ready_list[k].rowid
                /\ (a.rowid - sestate.chunk_ready_list[k].rowid) + a.dims
                      <= PGSTROM_CHUNK_SIZE

\* C24: once an iterator call of a session has returned end-of-scan, every
\* later iterator call of the session returns end-of-scan as well: the
\* session goes on, the slot comes back cleared and no row is added.
C24_EndOfScanIsSticky ==
    [][(EndOfScanSeen /\ calls' = calls + 1) =>
          /\ phase' = "scanning"
          /\ slot' = EmptySlot
          /\ emitted' = emitted]_vars

====
